---- MODULE Spec2Model ----
(***************************************************************************)
(* what2do: reconstruction of the history of TODO comments of one file     *)
(* (src/src/what2do/git_history.py).  One call of get_todo_history is      *)
(* modelled as a state machine: repository lookup, enumeration of the      *)
(* revisions of the file (git log --follow --name-status, newest first),   *)
(* then one fetch / extract / compare step per revision.                   *)
(***************************************************************************)
EXTENDS Integers, Sequences, FiniteSets, TLC

(* ------------------------------ bounds --------------------------------- *)

MaxRevs == 3
MaxBodies == 2
MaxLines == 2
MaxPaths == 2
MaxIndent == 1
MaxRepeat == 2
MaxGap == 1

BodyNames == <<"fix bug", "add test", "refactor", "write docs">>
PathNames == <<"new.py", "old.py", "older.py", "oldest.py">>

Bodies == {BodyNames[k] : k \in 1..MaxBodies}
Paths == {PathNames[k] : k \in 1..MaxPaths}

(* ------------------------------ values --------------------------------- *)

None == "None"
NoMatch == "NoMatch"

\* One line of a file: whether line.strip() starts with a quote character,
\* and what todo_regex.search(line).group(1).strip() is (NoMatch: no match).
Lines == [quoted : BOOLEAN, body : Bodies \cup {NoMatch}]

\* File contents: sequences of at most MaxLines lines.
Contents == UNION {[1..k -> Lines] : k \in 0..MaxLines}

\* The exceptions subprocess.check_output can raise.
CalledProcessError == "CalledProcessError"
FileNotFoundError == "FileNotFoundError"
PermissionError == "PermissionError"
UnicodeDecodeError == "UnicodeDecodeError"

\* The exception of a failed unpacking of line.split('|') or of int().
ValueError == "ValueError"

\* All orders in which a set can be iterated.
Orders(S) == {f \in [1..Cardinality(S) -> S] : \A a, b \in DOMAIN f : f[a] = f[b] => a = b}

VARIABLES
    paths,          \* repository: paths[h] is the path of the file in the tree of revision h (1 = oldest)
    relative_path,  \* the path of the file relative to the repository root
    pc,             \* position in get_todo_history
    commits,        \* the list returned by get_file_history
    idx,            \* position of the loop over commits
    todo_history,   \* the list of events built by get_todo_history
    fetched,        \* what get_file_content_at_commit returned, in processing order
    result,         \* "running", "returned" or "raised"
    exc,            \* the exception that left get_todo_history, and where it was raised
    git_root,       \* git_root of get_todo_history ("unset" before line 127)
    history_root,   \* git_root of get_file_history ("unset" before line 45)
    queried,        \* the git subcommands run so far
    rerun_pc,       \* position of a second run over the same repository
    rerun_idx,      \* position of the loop over commits in the second run
    rerun_history,  \* the list of events built by the second run
    text,           \* a file content as text: a sequence of lines, each a sequence of characters
    shape,          \* how the last line of text was put together
    scan,           \* position of the loop over the lines of text
    scan_todos      \* the set current_todos built by that loop

runVars == <<paths, relative_path, pc, commits, idx, todo_history, fetched, result, exc,
             git_root, history_root, queried>>
rerunVars == <<rerun_pc, rerun_idx, rerun_history>>
scanVars == <<text, shape, scan, scan_todos>>
vars == <<runVars, rerunVars, scanVars>>

NoException == [kind |-> None, site |-> None, caller |-> None]

\* No line has been put together.
NoShape == [indent |-> 0, quote |-> 0, pad |-> 0, leader |-> "", repeat |-> 0, gap |-> 0,
            word |-> "", sep |-> "", body |-> <<>>, in_string |-> FALSE]

(* --------------------------- the git tool ------------------------------ *)

\* The file-status line git prints for revision h of the file.
StatusLine(p, h) ==
    IF h = 1 THEN <<"A", p[1]>>
    ELSE IF p[h - 1] # p[h] THEN <<"R100", p[h - 1], p[h]>>
    ELSE <<"M", p[h]>>

\* A subject line is plain or contains a '|'.
Subjects == {"plain", "a|b"}

\* The number of fields line.split('|') gives for a header line.
HeaderFields(subject) == IF subject = "plain" THEN 5 ELSE 6

\* Output of git log --follow --name-status --format=%H|%an|%ae|%at|%s,
\* split into lines: newest revision first, a header line, an empty line and
\* the status line per revision.  subj[h] is the subject of revision h.
RECURSIVE GitLog(_, _, _)
GitLog(p, h, subj) ==
    IF h = 0 THEN <<>>
    ELSE << [kind |-> "header", hash |-> h, status |-> <<>>, fields |-> HeaderFields(subj[h])],
            [kind |-> "empty", hash |-> 0, status |-> <<>>, fields |-> 0],
            [kind |-> "status", hash |-> 0, status |-> StatusLine(p, h), fields |-> 0] >>
         \o GitLog(p, h - 1, subj)

\* Outcomes of git log run through subprocess.check_output, other than an
\* output.
GitLogFailures == {CalledProcessError, FileNotFoundError, UnicodeDecodeError}

\* Outcomes of git show <hash>:<path> run through subprocess.check_output:
\* the exception raised (None: no exception) and the content returned.
\* The tool exits with an error when the path is not in the tree of the
\* revision; it may fail for other reasons whatever the path.
ShowRaises(e) == [exc |-> e, content |-> <<>>]

GitShow(hash, path) ==
    (IF path = paths[hash]
     THEN {[exc |-> None, content |-> c] : c \in Contents} \cup {ShowRaises(UnicodeDecodeError)}
     ELSE {})
        \cup {ShowRaises(CalledProcessError), ShowRaises(FileNotFoundError)}

\* Outcomes of git rev-parse --show-toplevel run through check_output.
GitRevParse == {"root", CalledProcessError, FileNotFoundError, PermissionError}

(* --------------------------- get_git_root ------------------------------ *)

\* What get_git_root does with an outcome of the tool: the root, None, or
\* the exception, which it does not catch.
get_git_root(outcome) ==
    IF outcome = CalledProcessError THEN None ELSE outcome

IsException(v) ==
    v \in {CalledProcessError, FileNotFoundError, PermissionError, UnicodeDecodeError, ValueError}

\* if not git_root
NoRoot_Never(root) == FALSE

NoRoot(root) == root = None

(* -------------------------- get_file_history --------------------------- *)

\* status[0].startswith('R')
IsRename(status) == status[1] \in {"R100"}

\* A slip in the rename line: the new path is taken instead of the old one.
StatusOldPath_NewPath(status) == status[3]

\* status[1], the path the file is renamed from
StatusOldPath(status) == status[2]

\* The loop over the lines of the log.  current_commit is the last element
\* of commits; old_path is the running historical path.
RECURSIVE ParseLines(_, _, _)
ParseLines(lines, acc, old_path) ==
    IF lines = <<>> THEN acc
    ELSE LET line == Head(lines)
             rest == Tail(lines)
         IN  IF line.kind = "empty" THEN ParseLines(rest, acc, old_path)
             ELSE IF line.kind = "header"
             THEN ParseLines(rest,
                             Append(acc, [hash |-> line.hash, old_path |-> old_path]),
                             old_path)
             ELSE IF acc # <<>> /\ Len(line.status) > 1 /\ IsRename(line.status)
             THEN ParseLines(rest,
                             [acc EXCEPT ![Len(acc)].old_path = StatusOldPath(line.status)],
                             StatusOldPath(line.status))
             ELSE ParseLines(rest, acc, old_path)

\* hash_, author, email, timestamp, subject = line.split('|') raises
\* ValueError on a header line that has not five fields.
UnpackRaises(log_output) ==
    \E k \in 1..Len(log_output) : log_output[k].kind = "header" /\ log_output[k].fields # 5

\* get_file_history once the root is known and git log has succeeded.
ParseLog(log_output, rel) ==
    IF log_output = <<>> THEN <<>> ELSE ParseLines(log_output, <<>>, rel)

(* --------------------- get_file_content_at_commit ---------------------- *)

\* What get_file_content_at_commit does with an outcome of the tool: it
\* returns the content ("content": out.content is the text), returns None, or
\* lets the exception through.
get_file_content_at_commit(out) ==
    IF out.exc = None THEN "content"
    ELSE IF out.exc = CalledProcessError THEN None
    ELSE out.exc

(* -------------------------- get_todo_history --------------------------- *)

\* The set current_todos built from a content.
Extract(file_content) ==
    {file_content[k].body : k \in {j \in 1..Len(file_content) :
        file_content[j].body # NoMatch /\ ~file_content[j].quoted}}

\* prev_todos: the bodies of the items of the last event
PrevTodos(history) ==
    LET last == history[Len(history)].todos
    IN  {last[k].todo : k \in 1..Len(last)}

\* A slip: the first fetched revision only sets the baseline.
Added_FirstNothing(history, current_todos) ==
    IF history # <<>> THEN current_todos \ PrevTodos(history) ELSE {}

Added(history, current_todos) ==
    IF history # <<>> THEN current_todos \ PrevTodos(history) ELSE current_todos

\* A slip: the line computing added is copied without swapping the operands.
Removed_CopyPaste(history, current_todos) ==
    IF history # <<>> THEN current_todos \ PrevTodos(history) ELSE {}

\* A slip: the current set is not subtracted.
Removed_KeepsAll(history, current_todos) ==
    IF history # <<>> THEN PrevTodos(history) ELSE {}

Removed(history, current_todos) ==
    IF history # <<>> THEN PrevTodos(history) \ current_todos ELSE {}

\* A slip: the two lists are concatenated the other way round.
TodoItems_RemovedFirst(oa, orm) ==
    [k \in 1..Len(orm) |-> [todo |-> orm[k], status |-> "removed"]]
        \o [k \in 1..Len(oa) |-> [todo |-> oa[k], status |-> "added"]]

\* The list of items of an event, for one iteration order of the two sets.
TodoItems(oa, orm) ==
    [k \in 1..Len(oa) |-> [todo |-> oa[k], status |-> "added"]]
        \o [k \in 1..Len(orm) |-> [todo |-> orm[k], status |-> "removed"]]

\* A slip in the None check: an absent content is reconciled as an empty
\* file, so every TODO of the previous event is reported removed.
SkipRevision_AsEmptyFile(history, commit) ==
    IF history # <<>> /\ PrevTodos(history) # {}
    THEN Append(history, [commit |-> commit,
                          todos |-> TodoItems(<<>>, CHOOSE o \in Orders(PrevTodos(history)) : TRUE)])
    ELSE history

\* What the loop body does when the content of a revision is None.
SkipRevision(history, commit) == history

\* A slip: the event is put in front of the list.
Emit_InFront(history, event) == <<event>> \o history

\* todo_history.append(...)
Emit(history, event) == Append(history, event)

(* ------------------------------ actions -------------------------------- *)

PathIndex(name) == CHOOSE i \in 1..MaxPaths : PathNames[i] = name

\* Path names are arbitrary: the file is now called PathNames[1], and going
\* back in history each name not met before is the next one of PathNames.
NamedInOrder(p) ==
    \A h \in 1..Len(p) :
        \/ PathIndex(p[h]) = 1
        \/ \E g \in (h + 1)..Len(p) : PathIndex(p[g]) = PathIndex(p[h]) - 1

\* The histories of the path of the file, oldest revision first.
PathSeqs == {p \in UNION {[1..n -> Paths] : n \in 0..MaxRevs} : NamedInOrder(p)}

Init ==
    /\ paths \in PathSeqs
    /\ relative_path = PathNames[1]
    /\ paths # <<>> => relative_path = paths[Len(paths)]
    /\ pc = "start"
    /\ commits = <<>>
    /\ idx = 1
    /\ todo_history = <<>>
    /\ fetched = <<>>
    /\ result = "running"
    /\ exc = NoException
    /\ git_root = "unset"
    /\ history_root = "unset"
    /\ queried = {}
    /\ rerun_pc = "idle"
    /\ rerun_idx = 1
    /\ rerun_history = <<>>
    /\ text = <<>>
    /\ shape = NoShape
    /\ scan = 1
    /\ scan_todos = {}

Raise(kind, site, caller) ==
    /\ pc' = "done"
    /\ result' = "raised"
    /\ exc' = [kind |-> kind, site |-> site, caller |-> caller]

\* get_todo_history, line 127: the root is found.
GitRootFound ==
    /\ pc = "start"
    /\ \E out \in GitRevParse :
        /\ ~IsException(get_git_root(out))
        /\ ~NoRoot(get_git_root(out))
        /\ git_root' = get_git_root(out)
    /\ pc' = "history"
    /\ queried' = queried \cup {"rev-parse"}
    /\ UNCHANGED <<paths, relative_path, commits, idx, todo_history, fetched, result, exc,
                   history_root, rerunVars, scanVars>>

\* get_todo_history, lines 128-129: no root, return [].
GitRootNone ==
    /\ pc = "start"
    /\ \E out \in GitRevParse :
        /\ ~IsException(get_git_root(out))
        /\ NoRoot(get_git_root(out))
        /\ git_root' = get_git_root(out)
    /\ pc' = "done"
    /\ result' = "returned"
    /\ queried' = queried \cup {"rev-parse"}
    /\ UNCHANGED <<paths, relative_path, commits, idx, todo_history, fetched, exc,
                   history_root, rerunVars, scanVars>>

\* get_git_root lets an exception through.
GitRootRaises ==
    /\ pc = "start"
    /\ \E out \in GitRevParse :
        /\ IsException(get_git_root(out))
        /\ Raise(get_git_root(out), "get_git_root", "get_todo_history")
    /\ queried' = queried \cup {"rev-parse"}
    /\ UNCHANGED <<paths, relative_path, commits, idx, todo_history, fetched,
                   git_root, history_root, rerunVars, scanVars>>

\* get_file_history returns the parsed log.
FileHistory ==
    /\ pc = "history"
    /\ \E out \in GitRevParse :
        /\ ~IsException(get_git_root(out))
        /\ ~NoRoot(get_git_root(out))
        /\ history_root' = get_git_root(out)
    /\ \E subj \in [1..Len(paths) -> Subjects] :
        LET log_output == GitLog(paths, Len(paths), subj)
        IN  /\ ~UnpackRaises(log_output)
            /\ commits' = ParseLog(log_output, relative_path)
    /\ pc' = "loop"
    /\ queried' = queried \cup {"rev-parse", "log"}
    /\ UNCHANGED <<paths, relative_path, idx, todo_history, fetched, result, exc,
                   git_root, rerunVars, scanVars>>

\* get_file_history, lines 46-47: no root, return [].
FileHistoryNoRoot ==
    /\ pc = "history"
    /\ \E out \in GitRevParse :
        /\ ~IsException(get_git_root(out))
        /\ NoRoot(get_git_root(out))
        /\ history_root' = get_git_root(out)
    /\ commits' = <<>>
    /\ pc' = "loop"
    /\ queried' = queried \cup {"rev-parse"}
    /\ UNCHANGED <<paths, relative_path, idx, todo_history, fetched, result, exc,
                   git_root, rerunVars, scanVars>>

\* get_file_history, lines 89-90: git log exits non-zero, return [].
FileHistoryEmpty ==
    /\ pc = "history"
    /\ \E out \in GitRevParse :
        /\ ~IsException(get_git_root(out))
        /\ ~NoRoot(get_git_root(out))
        /\ history_root' = get_git_root(out)
    /\ CalledProcessError \in GitLogFailures
    /\ commits' = <<>>
    /\ pc' = "loop"
    /\ queried' = queried \cup {"rev-parse", "log"}
    /\ UNCHANGED <<paths, relative_path, idx, todo_history, fetched, result, exc,
                   git_root, rerunVars, scanVars>>

\* get_file_history's own call of get_git_root lets an exception through.
FileHistoryRaises ==
    /\ pc = "history"
    /\ \E out \in GitRevParse :
        /\ IsException(get_git_root(out))
        /\ Raise(get_git_root(out), "get_git_root", "get_file_history")
    /\ queried' = queried \cup {"rev-parse"}
    /\ UNCHANGED <<paths, relative_path, commits, idx, todo_history, fetched,
                   git_root, history_root, rerunVars, scanVars>>

\* git log fails with something else than a non-zero exit: the exception
\* leaves get_file_history and get_todo_history.
FileHistoryLogRaises ==
    /\ pc = "history"
    /\ \E out \in GitRevParse :
        /\ ~IsException(get_git_root(out))
        /\ ~NoRoot(get_git_root(out))
        /\ history_root' = get_git_root(out)
    /\ \E e \in GitLogFailures \ {CalledProcessError} :
        Raise(e, "get_file_history", "get_todo_history")
    /\ queried' = queried \cup {"rev-parse", "log"}
    /\ UNCHANGED <<paths, relative_path, commits, idx, todo_history, fetched,
                   git_root, rerunVars, scanVars>>

\* A header line of the log has not five fields: ValueError leaves
\* get_file_history and get_todo_history.
FileHistoryUnpackRaises ==
    /\ pc = "history"
    /\ \E out \in GitRevParse :
        /\ ~IsException(get_git_root(out))
        /\ ~NoRoot(get_git_root(out))
        /\ history_root' = get_git_root(out)
    /\ \E subj \in [1..Len(paths) -> Subjects] :
        UnpackRaises(GitLog(paths, Len(paths), subj))
    /\ Raise(ValueError, "get_file_history", "get_todo_history")
    /\ queried' = queried \cup {"rev-parse", "log"}
    /\ UNCHANGED <<paths, relative_path, commits, idx, todo_history, fetched,
                   git_root, rerunVars, scanVars>>

\* get_file_content_at_commit returns None: continue.
FetchAbsent ==
    /\ pc = "loop"
    /\ idx <= Len(commits)
    /\ \E out \in GitShow(commits[idx].hash, commits[idx].old_path) :
        get_file_content_at_commit(out) = None
    /\ todo_history' = SkipRevision(todo_history, commits[idx])
    /\ fetched' = Append(fetched, [hash |-> commits[idx].hash, absent |-> TRUE, todos |-> {}])
    /\ idx' = idx + 1
    /\ queried' = queried \cup {"show"}
    /\ UNCHANGED <<paths, relative_path, pc, commits, result, exc,
                   git_root, history_root, rerunVars, scanVars>>

\* get_file_content_at_commit lets an exception through, and so does
\* get_todo_history.
FetchRaises ==
    /\ pc = "loop"
    /\ idx <= Len(commits)
    /\ \E out \in GitShow(commits[idx].hash, commits[idx].old_path) :
        /\ IsException(get_file_content_at_commit(out))
        /\ Raise(get_file_content_at_commit(out), "get_file_content_at_commit", "get_todo_history")
    /\ queried' = queried \cup {"show"}
    /\ UNCHANGED <<paths, relative_path, commits, idx, todo_history, fetched,
                   git_root, history_root, rerunVars, scanVars>>

\* The content is fetched: extract, compare with the previous event, emit.
Reconcile ==
    /\ pc = "loop"
    /\ idx <= Len(commits)
    /\ \E out \in GitShow(commits[idx].hash, commits[idx].old_path) :
        /\ get_file_content_at_commit(out) = "content"
        /\ LET file_content == out.content
               todos == Extract(file_content)
               added == Added(todo_history, todos)
               removed == Removed(todo_history, todos)
           IN  /\ IF added # {} \/ removed # {}
                  THEN \E oa \in Orders(added), orm \in Orders(removed) :
                           todo_history' = Emit(todo_history,
                               [commit |-> commits[idx], todos |-> TodoItems(oa, orm)])
                  ELSE todo_history' = todo_history
               /\ fetched' = Append(fetched,
                      [hash |-> commits[idx].hash, absent |-> FALSE, todos |-> todos])
    /\ idx' = idx + 1
    /\ queried' = queried \cup {"show"}
    /\ UNCHANGED <<paths, relative_path, pc, commits, result, exc,
                   git_root, history_root, rerunVars, scanVars>>

\* return todo_history
ReturnHistory ==
    /\ pc = "loop"
    /\ idx > Len(commits)
    /\ pc' = "done"
    /\ result' = "returned"
    /\ UNCHANGED <<paths, relative_path, commits, idx, todo_history, fetched, exc,
                   git_root, history_root, queried, rerunVars, scanVars>>

Next ==
    \/ GitRootFound
    \/ GitRootNone
    \/ GitRootRaises
    \/ FileHistory
    \/ FileHistoryNoRoot
    \/ FileHistoryEmpty
    \/ FileHistoryRaises
    \/ FileHistoryLogRaises
    \/ FileHistoryUnpackRaises
    \/ FetchAbsent
    \/ FetchRaises
    \/ Reconcile
    \/ ReturnHistory

Spec == Init /\ [][Next]_vars

(* ----------------- the extraction loop on text lines ------------------- *)

\* A line is a sequence of characters; the letters of the word TODO are one
\* character, in one of three letter cases, and "x" is a letter of free text.
Space == " "
Spaces(n) == [k \in 1..n |-> Space]
Repeat(c, n) == [k \in 1..n |-> c]

\* re.IGNORECASE on the word of the pattern
Lower(c) == IF c \in {"TODO", "todo", "Todo"} THEN "todo" ELSE c

\* str.strip()
RECURSIVE LStrip(_)
LStrip(t) == IF t # <<>> /\ Head(t) = Space THEN LStrip(Tail(t)) ELSE t

RECURSIVE RStrip(_)
RStrip(t) == IF t # <<>> /\ t[Len(t)] = Space THEN RStrip(SubSeq(t, 1, Len(t) - 1)) ELSE t

Strip(t) == RStrip(LStrip(t))

\* The first position at or after j that holds no whitespace (\s*).
RECURSIVE SkipSpaces(_, _)
SkipSpaces(t, j) == IF j <= Len(t) /\ t[j] = Space THEN SkipSpaces(t, j + 1) ELSE j

\* The default pattern (?:^|\s)#\s*(?:TODO|todo)[\s:-](.+) matches with its
\* '#' at position i of the line.
PatternAt(t, i) ==
    LET w == SkipSpaces(t, i + 1)
    IN  /\ t[i] = "#"
        /\ (i = 1 \/ t[i - 1] = Space)
        /\ w <= Len(t) /\ Lower(t[w]) = "todo"
        /\ w + 1 <= Len(t) /\ t[w + 1] \in {Space, ":", "-"}
        /\ w + 2 <= Len(t)

\* todo_regex.search(line): the leftmost match, and its group(1).
RegexSearch(t) ==
    LET hits == {i \in 1..Len(t) : PatternAt(t, i)}
        first == CHOOSE i \in hits : \A j \in hits : i <= j
    IN  IF hits = {} THEN [matched |-> FALSE, group |-> <<>>]
        ELSE [matched |-> TRUE,
              group |-> SubSeq(t, SkipSpaces(t, first + 1) + 2, Len(t))]

\* A slip: the line is not stripped before the test.
StartsWithQuote_NoStrip(t) == t # <<>> /\ t[1] \in {"'", "\""}

\* line.strip().startswith(...) with the four string delimiters
StartsWithQuote(t) == Strip(t) # <<>> /\ Strip(t)[1] \in {"'", "\""}

\* The lines the loop is run on.  A line is put together from: indentation,
\* a string delimiter (or none) and a space after it, a comment leader '#'
\* or '//' with its last character repeated, whitespace, the word TODO, a
\* separator (or none) and free text.  in_string: the line before it opens a
\* multi-line string.
QuoteOpeners == {<<>>, <<"'">>, <<"\"">>, <<"'", "'", "'">>, <<"\"", "\"", "\"">>}
FreeTexts == {<<>>, <<Space>>, <<"x">>, <<Space, "x", Space>>, <<"x", Space, "x">>}

Shapes ==
    {sh \in [indent : 0..MaxIndent, quote : QuoteOpeners, pad : 0..1,
             leader : {"#", "//"}, repeat : 1..MaxRepeat, gap : 0..MaxGap,
             word : {"TODO", "todo", "Todo"}, sep : {"", Space, ":", "-"},
             body : FreeTexts, in_string : BOOLEAN] :
        sh.quote = <<>> => sh.pad = 0}

LeaderOf(sh) ==
    IF sh.leader = "#" THEN Repeat("#", sh.repeat) ELSE <<"/">> \o Repeat("/", sh.repeat)

LineOf(sh) ==
    Spaces(sh.indent) \o sh.quote \o Spaces(sh.pad) \o LeaderOf(sh) \o Spaces(sh.gap)
        \o <<sh.word>> \o (IF sh.sep = "" THEN <<>> ELSE <<sh.sep>>) \o sh.body

TextOf(sh) ==
    IF sh.in_string THEN << <<"'", "'", "'">>, LineOf(sh) >> ELSE << LineOf(sh) >>

InitExtract ==
    /\ paths = <<>>
    /\ relative_path = PathNames[1]
    /\ pc = "start"
    /\ commits = <<>>
    /\ idx = 1
    /\ todo_history = <<>>
    /\ fetched = <<>>
    /\ result = "running"
    /\ exc = NoException
    /\ git_root = "unset"
    /\ history_root = "unset"
    /\ queried = {}
    /\ rerun_pc = "idle"
    /\ rerun_idx = 1
    /\ rerun_history = <<>>
    /\ shape \in Shapes
    /\ text = TextOf(shape)
    /\ scan = 1
    /\ scan_todos = {}

\* Lines 149-151: the pattern matches and the line does not start with a
\* quote: the stripped group is added to current_todos.
ScanAdd ==
    /\ scan <= Len(text)
    /\ RegexSearch(text[scan]).matched
    /\ ~StartsWithQuote(text[scan])
    /\ scan_todos' = scan_todos \cup {Strip(RegexSearch(text[scan]).group)}
    /\ scan' = scan + 1
    /\ UNCHANGED <<runVars, rerunVars, text, shape>>

\* Lines 149-150: no match, or the line starts with a quote: next line.
ScanPass ==
    /\ scan <= Len(text)
    /\ ~(RegexSearch(text[scan]).matched /\ ~StartsWithQuote(text[scan]))
    /\ scan' = scan + 1
    /\ UNCHANGED <<runVars, rerunVars, text, shape, scan_todos>>

NextExtract ==
    \/ ScanAdd
    \/ ScanPass

SpecExtract == InitExtract /\ [][NextExtract]_vars

(* ------------------ a second run over the same inputs ------------------- *)

\* get_todo_history is called again, in another process, on the same file of
\* the same repository: the tool gives the same root, the same log and the
\* same contents, so the second run reaches its loop with the same commits.
RerunStart ==
    /\ pc = "done"
    /\ result = "returned"
    /\ rerun_pc = "idle"
    /\ rerun_pc' = "loop"
    /\ UNCHANGED <<runVars, rerun_idx, rerun_history, scanVars>>

\* The content of the revision is None again: continue.
RerunSkip ==
    /\ rerun_pc = "loop"
    /\ rerun_idx <= Len(fetched)
    /\ fetched[rerun_idx].absent
    /\ rerun_history' = SkipRevision(rerun_history, commits[rerun_idx])
    /\ rerun_idx' = rerun_idx + 1
    /\ UNCHANGED <<runVars, rerun_pc, scanVars>>

\* The same content is fetched again: compare with the previous event, emit.
\* The two sets are iterated in an order of their own.
RerunReconcile ==
    /\ rerun_pc = "loop"
    /\ rerun_idx <= Len(fetched)
    /\ ~fetched[rerun_idx].absent
    /\ LET todos == fetched[rerun_idx].todos
           added == Added(rerun_history, todos)
           removed == Removed(rerun_history, todos)
       IN  IF added # {} \/ removed # {}
           THEN \E oa \in Orders(added), orm \in Orders(removed) :
                    rerun_history' = Emit(rerun_history,
                        [commit |-> commits[rerun_idx], todos |-> TodoItems(oa, orm)])
           ELSE rerun_history' = rerun_history
    /\ rerun_idx' = rerun_idx + 1
    /\ UNCHANGED <<runVars, rerun_pc, scanVars>>

\* The second run returns its list.
RerunReturn ==
    /\ rerun_pc = "loop"
    /\ rerun_idx > Len(fetched)
    /\ rerun_pc' = "done"
    /\ UNCHANGED <<runVars, rerun_idx, rerun_history, scanVars>>

NextRerun ==
    \/ Next
    \/ RerunStart
    \/ RerunSkip
    \/ RerunReconcile
    \/ RerunReturn

SpecRerun == Init /\ [][NextRerun]_vars

TypeOK ==
    /\ pc \in {"start", "history", "loop", "done"}
    /\ result \in {"running", "returned", "raised"}
    /\ idx \in 1..(MaxRevs + 1)
    /\ Len(fetched) = idx - 1

(* ------------------------ reading the results --------------------------- *)

\* The revisions whose content was fetched, in processing order.
FetchedOk == SelectSeq(fetched, LAMBDA f : ~f.absent)

AddedOf(e) == {e.todos[k].todo : k \in {j \in 1..Len(e.todos) : e.todos[j].status = "added"}}
RemovedOf(e) == {e.todos[k].todo : k \in {j \in 1..Len(e.todos) : e.todos[j].status = "removed"}}

\* The positions in todo_history of the events of revision h.
EventsOf(h) == {k \in 1..Len(todo_history) : todo_history[k].commit.hash = h}

Front(s) == SubSeq(s, 1, Len(s) - 1)
Last(s) == s[Len(s)]

\* Folding ADDED/REMOVED over a sequence of events, from the empty set.
RECURSIVE FoldEvents(_)
FoldEvents(h) ==
    IF h = <<>> THEN {}
    ELSE (FoldEvents(Front(h)) \ RemovedOf(Last(h))) \cup AddedOf(Last(h))

\* get_todo_history over a sequence of fetched revisions, none of them
\* absent: the events as (hash, added set, removed set).
RECURSIVE RunOn(_)
RunOn(snaps) ==
    IF snaps = <<>> THEN <<>>
    ELSE LET h == RunOn(Front(snaps))
             current_todos == Last(snaps).todos
             prev_todos == IF h # <<>> THEN Last(h).added \cup Last(h).removed ELSE {}
             added == IF h # <<>> THEN current_todos \ prev_todos ELSE current_todos
             removed == IF h # <<>> THEN prev_todos \ current_todos ELSE {}
         IN  IF added # {} \/ removed # {}
             THEN Append(h, [hash |-> Last(snaps).hash, added |-> added, removed |-> removed])
             ELSE h

EventSets(h) ==
    [k \in 1..Len(h) |-> [hash |-> h[k].commit.hash, added |-> AddedOf(h[k]), removed |-> RemovedOf(h[k])]]

\* The revision h renames the file.
RenameAt(h) == h > 1 /\ paths[h - 1] # paths[h]

\* The old path of the nearest revision at or above h (h or newer) that
\* renames the file, the current path if there is none.
Min(S) == CHOOSE x \in S : \A y \in S : x <= y
PathBelowNearestRename(h) ==
    LET above == {j \in h..Len(paths) : RenameAt(j)}
    IN  IF above = {} THEN relative_path ELSE paths[Min(above) - 1]

(* ------------------------------- claims -------------------------------- *)

\* C1: for every fetched revision after the first, the event of the revision
\* lists as added current - previous and as removed previous - current, where
\* previous is the full TODO set of the revision fetched just before it (and
\* there is such an event whenever one of the two differences is non-empty).
C1_DiffAgainstPreviousRevision ==
    \A k \in 2..Len(FetchedOk) :
        LET current == FetchedOk[k].todos
            previous == FetchedOk[k - 1].todos
        IN  /\ \A e \in EventsOf(FetchedOk[k].hash) :
                  /\ AddedOf(todo_history[e]) = current \ previous
                  /\ RemovedOf(todo_history[e]) = previous \ current
            /\ current # previous => EventsOf(FetchedOk[k].hash) # {}

\* C2: folding the emitted events from the empty set gives, after every
\* fetched revision, the TODO set of that revision.
C2_FoldGivesSnapshot ==
    FetchedOk # <<>> => FoldEvents(todo_history) = Last(FetchedOk).todos

\* C3: in the returned history, every ADDED body of an event of revision r is
\* in r's TODO set and not in the TODO set of the nearest chronologically
\* older fetched revision (if there is one), and every REMOVED body is in
\* that older revision's set and not in r's.
C3_ChronologicalOrder ==
    result = "returned" =>
        \A k \in 1..Len(todo_history) :
            LET r == todo_history[k].commit.hash
                mine == {f \in 1..Len(fetched) : fetched[f].hash = r}
                older == {f \in 1..Len(fetched) : ~fetched[f].absent /\ fetched[f].hash < r}
                nearest == CHOOSE f \in older : \A g \in older : fetched[g].hash <= fetched[f].hash
                olderTodos == IF older = {} THEN {} ELSE fetched[nearest].todos
            IN  \A m \in mine :
                    /\ AddedOf(todo_history[k]) \subseteq fetched[m].todos \ olderTodos
                    /\ RemovedOf(todo_history[k]) \subseteq olderTodos \ fetched[m].todos

\* C4: when two consecutively fetched revisions have different TODO sets,
\* there is exactly one event for the later one and it carries exactly the
\* two set differences.
C4_OneEventPerChange ==
    \A k \in 2..Len(FetchedOk) :
        FetchedOk[k].todos # FetchedOk[k - 1].todos =>
            /\ Cardinality(EventsOf(FetchedOk[k].hash)) = 1
            /\ \A e \in EventsOf(FetchedOk[k].hash) :
                  /\ AddedOf(todo_history[e]) = FetchedOk[k].todos \ FetchedOk[k - 1].todos
                  /\ RemovedOf(todo_history[e]) = FetchedOk[k - 1].todos \ FetchedOk[k].todos

\* C5: a fetched revision whose TODO set equals the TODO set of the revision
\* fetched just before it emits no event.
C5_UnchangedEmitsNothing ==
    \A k \in 2..Len(FetchedOk) :
        FetchedOk[k].todos = FetchedOk[k - 1].todos => EventsOf(FetchedOk[k].hash) = {}

\* C6: a revision whose content is absent carries no event, and the events
\* are those of the same run over the fetched revisions alone.
C6_AbsentRevisionSkipped ==
    /\ \A f \in 1..Len(fetched) : fetched[f].absent => EventsOf(fetched[f].hash) = {}
    /\ EventSets(todo_history) = RunOn(FetchedOk)

\* C6 witness: a fetched revision, an absent one, then a fetched one whose
\* event is emitted against the first.
C6_Witness ==
    /\ Len(fetched) = 3
    /\ ~fetched[1].absent /\ fetched[2].absent /\ ~fetched[3].absent
    /\ fetched[1].todos # {}
    /\ Len(todo_history) = 2
    /\ todo_history[2].commit.hash = fetched[3].hash

\* C7: every enumerated revision is recorded with the old path of the
\* nearest rename at or above it in the newest-first log, and with the path
\* relative to the root when no rename is above it.
C7_RunningHistoricalPath ==
    commits # <<>> =>
        /\ Len(commits) = Len(paths)
        /\ \A k \in 1..Len(commits) :
              /\ commits[k].hash = Len(paths) + 1 - k
              /\ commits[k].old_path = PathBelowNearestRename(commits[k].hash)

\* C7 witness: three revisions, the middle one renames the file: the newest
\* keeps the new path, the oldest has the old one.
C7_Witness ==
    /\ Len(commits) = 3
    /\ RenameAt(2) /\ ~RenameAt(3)
    /\ commits[1].old_path = paths[3]
    /\ commits[3].old_path = paths[1]
    /\ commits[1].old_path # commits[3].old_path

\* C8: every enumerated revision is recorded with a path under which the
\* file exists in the tree of that revision.
C8_HistoricalPathInTree ==
    \A k \in 1..Len(commits) : commits[k].old_path = paths[commits[k].hash]

\* C9: no error of get_file_content_at_commit leaves get_todo_history.
C9_FetchErrorIsAbsent ==
    ~(result = "raised" /\ exc.site = "get_file_content_at_commit")

\* C10: get_git_root never raises to its caller.
C10_GitRootNeverRaises ==
    ~(result = "raised" /\ exc.site = "get_git_root")

\* C11: no failure of the history query leaves get_file_history.
C11_HistoryQueryNeverRaises ==
    ~(result = "raised" /\ exc.site = "get_file_history")

\* C12: the first fetched revision has exactly one event, the first of the
\* list, whose ADDED bodies are its full TODO set and which has no REMOVED
\* item; it has no event when its TODO set is empty.
C12_FirstRevisionAllAdded ==
    FetchedOk # <<>> =>
        LET f == FetchedOk[1]
        IN  IF f.todos = {} THEN EventsOf(f.hash) = {}
            ELSE /\ EventsOf(f.hash) = {1}
                 /\ AddedOf(todo_history[1]) = f.todos
                 /\ RemovedOf(todo_history[1]) = {}

\* C12 witness: the first revision is absent, the first fetched one has two
\* TODOs and its event is emitted.
C12_Witness ==
    /\ Len(fetched) >= 2
    /\ fetched[1].absent /\ ~fetched[2].absent
    /\ Cardinality(fetched[2].todos) = 2
    /\ Len(todo_history) = 1
    /\ Len(todo_history[1].todos) = 2

\* C13: in every event no body is both ADDED and REMOVED and no item occurs
\* twice.
C13_ItemsUnique ==
    \A k \in 1..Len(todo_history) :
        /\ AddedOf(todo_history[k]) \cap RemovedOf(todo_history[k]) = {}
        /\ \A i, j \in 1..Len(todo_history[k].todos) :
              todo_history[k].todos[i] = todo_history[k].todos[j] => i = j

\* C13 witness: an event after the first with ADDED and REMOVED items.
C13_Witness ==
    \E k \in 2..Len(todo_history) :
        AddedOf(todo_history[k]) # {} /\ RemovedOf(todo_history[k]) # {}

\* C14: with no root, get_todo_history returns no event and get_file_history
\* no revision, without running git log or git show; and with no revision
\* get_todo_history returns no event.
C14_NoRootNoHistory ==
    /\ git_root = None =>
          /\ result = "returned"
          /\ todo_history = <<>>
          /\ queried \cap {"log", "show"} = {}
    /\ history_root = None =>
          /\ commits = <<>>
          /\ todo_history = <<>>
          /\ queried \cap {"log", "show"} = {}
    /\ (result = "returned" /\ commits = <<>>) => todo_history = <<>>

\* C14 witness: the file has a history but the root lookup finds no root.
C14_Witness ==
    /\ result = "returned"
    /\ git_root = None
    /\ paths # <<>>

\* C16: the revisions of the events are revisions of the enumerator's output,
\* in the same relative order, each at most once.
C16_EventsFollowRevisions ==
    \A k \in 1..Len(todo_history) :
        /\ \E i \in 1..Len(commits) : commits[i] = todo_history[k].commit
        /\ \A j \in 1..(k - 1) :
              \E a, b \in 1..Len(commits) :
                  /\ a < b
                  /\ commits[a] = todo_history[j].commit
                  /\ commits[b] = todo_history[k].commit

\* C16 witness: events for the first and the third revision, none for the
\* second.
C16_Witness ==
    /\ Len(commits) = 3
    /\ Len(todo_history) = 2
    /\ todo_history[1].commit = commits[1]
    /\ todo_history[2].commit = commits[3]

\* C19: every event has at least one item and no REMOVED item comes before
\* an ADDED item.
C19_AddedBeforeRemoved ==
    \A k \in 1..Len(todo_history) :
        LET items == todo_history[k].todos
        IN  /\ Len(items) >= 1
            /\ \A i, j \in 1..Len(items) :
                  (i < j) => ~(items[i].status = "removed" /\ items[j].status = "added")

\* C19 witness: an event of two items, ADDED then REMOVED.
C19_Witness ==
    \E k \in 1..Len(todo_history) :
        /\ Len(todo_history[k].todos) = 2
        /\ todo_history[k].todos[1].status = "added"
        /\ todo_history[k].todos[2].status = "removed"

\* C20: every ADDED body of an event is in the TODO set extracted from the
\* content of its revision and no REMOVED body is.
C20_EventAgreesWithContent ==
    \A k \in 1..Len(todo_history) :
        \A f \in 1..Len(fetched) :
            fetched[f].hash = todo_history[k].commit.hash =>
                /\ ~fetched[f].absent
                /\ AddedOf(todo_history[k]) \subseteq fetched[f].todos
                /\ RemovedOf(todo_history[k]) \cap fetched[f].todos = {}

\* C20 witness: a third event that removes a body from a revision that still
\* has TODOs.
C20_Witness ==
    /\ Len(todo_history) = 3
    /\ Len(fetched) = 3
    /\ RemovedOf(todo_history[3]) # {}
    /\ fetched[3].todos # {}

\* C15: a second run of get_todo_history over the same revisions and the
\* same contents returns the same list of events, item order included.
C15_RerunIdentical ==
    rerun_pc = "done" => rerun_history = todo_history

\* C17: a line made of a comment leader ('#' or '//', possibly repeated),
\* whitespace, the word TODO in any letter case, a separator and non-empty
\* free text, not starting with a quote, contributes its stripped free text.
C17_DefaultPatternExtracts ==
    (/\ scan > Len(text)
     /\ shape.quote = <<>>
     /\ shape.gap >= 1
     /\ shape.sep # ""
     /\ Strip(shape.body) # <<>>)
        => Strip(shape.body) \in scan_todos

\* C18: a line whose first non-whitespace character is a quote contributes
\* nothing, and a '# TODO' comment line that does not start with a quote
\* contributes its text also when the line before it opens a multi-line
\* string.
C18_QuotedLineExcluded ==
    scan > Len(text) =>
        /\ shape.quote # <<>> => scan_todos = {}
        /\ (/\ shape.in_string
            /\ shape.quote = <<>>
            /\ shape.leader = "#" /\ shape.repeat = 1
            /\ shape.sep # ""
            /\ Strip(shape.body) # <<>>)
               => scan_todos = {Strip(shape.body)}

\* C18 witness: an indented line that starts with a quote and that the
\* pattern matches is scanned and contributes nothing.
C18_Witness ==
    /\ scan > Len(text)
    /\ shape.quote # <<>>
    /\ shape.indent >= 1
    /\ RegexSearch(LineOf(shape)).matched
    /\ scan_todos = {}

====
